---------------------------- MODULE Spec2Model ----------------------------
(***************************************************************************)
(* Model of tradingagents/dataflows/alpha_vantage_fundamentals.py:         *)
(* the report trimmer _trim_financial_reports and the four retrieval       *)
(* functions built on the request helper _make_api_request.                *)
(*                                                                         *)
(* A Python str holding a response body is a sequence of lexical tokens    *)
(* (punctuation, literals, string literals, white space, and words that    *)
(* are no JSON token).  json.loads is a recursive-descent parser over the  *)
(* tokens and json.dumps(_, indent=2) a pretty-printer, so text -> value   *)
(* -> text is computed, not assumed.  A JSON string is the sequence of its *)
(* characters, so that Python's substring test and slicing apply to it.    *)
(***************************************************************************)
EXTENDS Integers, Sequences, FiniteSets, TLC

\* Longest annualReports / quarterlyReports array among the modelled payloads.
MaxReports == 5

\* src line 7 and line 8
MAX_ANNUAL_REPORTS == 2
MAX_QUARTERLY_REPORTS == 4

\* json.dumps(data, indent=2): the indent argument of line 28
INDENT == 2

-----------------------------------------------------------------------------
(* Python values produced by json.loads *)

JNull == [t |-> "null"]
JBool(b) == [t |-> "bool", b |-> b]
JNum(n) == [t |-> "num", n |-> n]
JStr(s) == [t |-> "str", s |-> s]
JArr(items) == [t |-> "arr", items |-> items]
\* a dict: its items in insertion order, keys unique
JObj(pairs) == [t |-> "obj", pairs |-> pairs]
Pair(k, v) == [key |-> k, val |-> v]

\* the two keys of lines 23-26, as character sequences
annualReports == <<"a","n","n","u","a","l","R","e","p","o","r","t","s">>
quarterlyReports == <<"q","u","a","r","t","e","r","l","y","R","e","p","o","r","t","s">>

\* outcome of a Python call: a returned value or a raised exception
Return(v) == [kind |-> "return", val |-> v]
Raise(e) == [kind |-> "raise", exc |-> e]

\* the Python objects passed as response_text: a str (its tokens) or None
PyStr(toks) == [ty |-> "str", toks |-> toks]
PyNone == [ty |-> "NoneType"]

-----------------------------------------------------------------------------
(* Lexical tokens of a text *)

Punct(p) == [k |-> "punct", p |-> p]
LBRACE == Punct("{")
RBRACE == Punct("}")
LBRACK == Punct("[")
RBRACK == Punct("]")
COLON == Punct(":")
COMMA == Punct(",")
LitTok(name) == [k |-> "lit", name |-> name]
NumTok(n) == [k |-> "num", n |-> n]
StrTok(s) == [k |-> "str", s |-> s]
\* white space: nl newlines followed by sp blanks
WS(nl, sp) == [k |-> "ws", nl |-> nl, sp |-> sp]
\* a run of characters that is no JSON token
Word(w) == [k |-> "word", w |-> w]

IsWS(tk) == tk.k = "ws"
Strip(toks) == SelectSeq(toks, LAMBDA tk : ~IsWS(tk))

-----------------------------------------------------------------------------
(* json.loads: recursive descent over the tokens, white space skipped *)

ParseOK(v, next) == [ok |-> TRUE, val |-> v, next |-> next]
ParseFail == [ok |-> FALSE]

\* dict[key] = val during parsing and at lines 24 and 26: an existing key
\* keeps its position and takes the new value, a new key goes last
DictSet(pairs, key, val) ==
    IF \E i \in 1..Len(pairs) : pairs[i].key = key
    THEN [i \in 1..Len(pairs) |->
            IF pairs[i].key = key THEN Pair(key, val) ELSE pairs[i]]
    ELSE Append(pairs, Pair(key, val))

RECURSIVE ParseValue(_, _)
RECURSIVE ParseItems(_, _, _)
RECURSIVE ParseMembers(_, _, _)

ParseValue(s, i) ==
    IF i > Len(s) THEN ParseFail
    ELSE LET tk == s[i] IN
         CASE tk.k = "lit" ->
                ParseOK(IF tk.name = "null" THEN JNull
                        ELSE JBool(tk.name = "true"), i + 1)
           [] tk.k = "num" -> ParseOK(JNum(tk.n), i + 1)
           [] tk.k = "str" -> ParseOK(JStr(tk.s), i + 1)
           [] tk = LBRACK ->
                IF i + 1 <= Len(s) /\ s[i + 1] = RBRACK
                THEN ParseOK(JArr(<<>>), i + 2)
                ELSE ParseItems(s, i + 1, <<>>)
           [] tk = LBRACE ->
                IF i + 1 <= Len(s) /\ s[i + 1] = RBRACE
                THEN ParseOK(JObj(<<>>), i + 2)
                ELSE ParseMembers(s, i + 1, <<>>)
           [] OTHER -> ParseFail

ParseItems(s, i, acc) ==
    LET r == ParseValue(s, i) IN
    IF ~r.ok \/ r.next > Len(s) THEN ParseFail
    ELSE IF s[r.next] = COMMA
         THEN ParseItems(s, r.next + 1, Append(acc, r.val))
    ELSE IF s[r.next] = RBRACK
         THEN ParseOK(JArr(Append(acc, r.val)), r.next + 1)
    ELSE ParseFail

ParseMembers(s, i, acc) ==
    IF i + 1 > Len(s) \/ s[i].k # "str" \/ s[i + 1] # COLON THEN ParseFail
    ELSE LET r == ParseValue(s, i + 2) IN
         IF ~r.ok \/ r.next > Len(s) THEN ParseFail
         ELSE IF s[r.next] = COMMA
              THEN ParseMembers(s, r.next + 1, DictSet(acc, s[i].s, r.val))
         ELSE IF s[r.next] = RBRACE
              THEN ParseOK(JObj(DictSet(acc, s[i].s, r.val)), r.next + 1)
         ELSE ParseFail

\* json.loads(response_text), line 19: TypeError for an argument that is no
\* text, JSONDecodeError for a text that is no single JSON value
json_loads(text) ==
    IF text.ty # "str" THEN Raise("TypeError")
    ELSE LET s == Strip(text.toks)
             r == ParseValue(s, 1)
         IN IF r.ok /\ r.next = Len(s) + 1 THEN Return(r.val)
            ELSE Raise("JSONDecodeError")

-----------------------------------------------------------------------------
(* json.dumps(data, indent): one item per line, nested by indent blanks,   *)
(* "[]" and "{}" for the empty containers, ", " never used, ": " after key *)

RECURSIVE Flatten(_)
Flatten(seqs) ==
    IF seqs = <<>> THEN <<>> ELSE Head(seqs) \o Flatten(Tail(seqs))

RECURSIVE DumpTokens(_, _, _)
DumpTokens(v, indent, level) ==
    LET inner == WS(1, indent * (level + 1))
        outer == WS(1, indent * level)
        sep(n, i) == IF i < n THEN <<COMMA>> ELSE <<>>
    IN CASE v.t = "null" -> <<LitTok("null")>>
         [] v.t = "bool" -> <<LitTok(IF v.b THEN "true" ELSE "false")>>
         [] v.t = "num" -> <<NumTok(v.n)>>
         [] v.t = "str" -> <<StrTok(v.s)>>
         [] v.t = "arr" ->
              IF v.items = <<>> THEN <<LBRACK, RBRACK>>
              ELSE <<LBRACK>>
                   \o Flatten([i \in 1..Len(v.items) |->
                        <<inner>> \o DumpTokens(v.items[i], indent, level + 1)
                        \o sep(Len(v.items), i)])
                   \o <<outer, RBRACK>>
         [] v.t = "obj" ->
              IF v.pairs = <<>> THEN <<LBRACE, RBRACE>>
              ELSE <<LBRACE>>
                   \o Flatten([i \in 1..Len(v.pairs) |->
                        <<inner, StrTok(v.pairs[i].key), COLON, WS(0, 1)>>
                        \o DumpTokens(v.pairs[i].val, indent, level + 1)
                        \o sep(Len(v.pairs), i)])
                   \o <<outer, RBRACE>>

json_dumps(data, indent) == PyStr(DumpTokens(data, indent, 0))

-----------------------------------------------------------------------------
(* The Python operations of lines 23-26 on a parsed value.  Python 3.10 and *)
(* 3.11 raise TypeError in every failing case below (3.12 raises KeyError  *)
(* for a slice used as a dict key); either way the exception is raised     *)
(* outside the try block of lines 18-21.                                   *)

Min(a, b) == IF a <= b THEN a ELSE b

\* sub occurs in s as a contiguous run of characters
IsSubstring(sub, s) ==
    \E i \in 0..(Len(s) - Len(sub)) :
        \A j \in 1..Len(sub) : s[i + j] = sub[j]

\* `key in data`: key test on a dict, element test on a list, substring test
\* on a str, TypeError on None, a bool or a number
PyIn(key, data) ==
    CASE data.t = "obj" ->
           Return(\E i \in 1..Len(data.pairs) : data.pairs[i].key = key)
      [] data.t = "arr" ->
           Return(\E i \in 1..Len(data.items) : data.items[i] = JStr(key))
      [] data.t = "str" -> Return(IsSubstring(key, data.s))
      [] OTHER -> Raise("TypeError")

\* `data[key]` for a str key found by PyIn: the dict's value; a list or a
\* str cannot be indexed by a str
PyGetItem(data, key) ==
    IF data.t = "obj"
    THEN LET i == CHOOSE i \in 1..Len(data.pairs) : data.pairs[i].key = key
         IN Return(data.pairs[i].val)
    ELSE Raise("TypeError")

\* PySlice with the slice taken from index 1: x[1:n + 1]
PySlice_FromSecond(x, n) ==
    CASE x.t = "arr" -> Return(JArr(SubSeq(x.items, 2, Min(n + 1, Len(x.items)))))
      [] x.t = "str" -> Return(JStr(SubSeq(x.s, 2, Min(n + 1, Len(x.s)))))
      [] OTHER -> Raise("TypeError")

\* `x[:n]`: the first n elements of a list, the first n characters of a str;
\* None, a bool, a number and a dict cannot be sliced
PySlice(x, n) ==
    CASE x.t = "arr" -> Return(JArr(SubSeq(x.items, 1, Min(n, Len(x.items)))))
      [] x.t = "str" -> Return(JStr(SubSeq(x.s, 1, Min(n, Len(x.s)))))
      [] OTHER -> Raise("TypeError")

\* lines 23-24 (and 25-26): if key in data: data[key] = data[key][:limit]
TrimField(data, key, limit) ==
    LET present == PyIn(key, data) IN
    IF present.kind = "raise" THEN present
    ELSE IF ~present.val THEN Return(data)
    ELSE LET item == PyGetItem(data, key) IN
         IF item.kind = "raise" THEN item
         ELSE LET cut == PySlice(item.val, limit) IN
              IF cut.kind = "raise" THEN cut
              ELSE Return(JObj(DictSet(data.pairs, key, cut.val)))

\* the trimmer with `except TypeError` alone: a JSONDecodeError propagates
_trim_financial_reports_TypeErrorOnly(response_text) ==
    LET parsed == json_loads(response_text) IN
    IF parsed.kind = "raise"
    THEN IF parsed.exc = "TypeError" THEN Return(response_text) ELSE parsed
    ELSE LET a == TrimField(parsed.val, annualReports, MAX_ANNUAL_REPORTS) IN
         IF a.kind = "raise" THEN a
         ELSE LET q == TrimField(a.val, quarterlyReports, MAX_QUARTERLY_REPORTS) IN
              IF q.kind = "raise" THEN q
              ELSE Return(json_dumps(q.val, INDENT))

\* lines 11-28
_trim_financial_reports(response_text) ==
    LET parsed == json_loads(response_text) IN
    IF parsed.kind = "raise"
    THEN IF parsed.exc \in {"JSONDecodeError", "TypeError"}
         THEN Return(response_text)
         ELSE parsed
    ELSE LET a == TrimField(parsed.val, annualReports, MAX_ANNUAL_REPORTS) IN
         IF a.kind = "raise" THEN a
         ELSE LET q == TrimField(a.val, quarterlyReports, MAX_QUARTERLY_REPORTS) IN
              IF q.kind = "raise" THEN q
              ELSE Return(json_dumps(q.val, INDENT))

-----------------------------------------------------------------------------
(* The retrieval functions, lines 31-103.  api is what _make_api_request   *)
(* does for the one request the function makes: Return(text) or Raise(e).  *)
(* A call yields the requests made, the texts handed to the trimmer and    *)
(* the outcome the caller sees.                                            *)

Request(function_name, params) ==
    [function_name |-> function_name, params |-> params]

CallResult(requests, trimmed, outcome) ==
    [requests |-> requests, trimmed |-> trimmed, outcome |-> outcome]

\* TrimmedRequest with the request inside a try block whose handler returns
\* an error string, which then goes through the trimmer
TrimmedRequest_Caught(function_name, params, api) ==
    LET text == IF api.kind = "raise"
                THEN PyStr(<<Word("Error:"), WS(0, 1), Word(api.exc)>>)
                ELSE api.val
    IN CallResult(<<Request(function_name, params)>>, <<text>>,
                  _trim_financial_reports(text))

\* _trim_financial_reports(_make_api_request(function_name, params)):
\* the argument is evaluated first, and an exception it raises leaves the
\* trimmer uncalled
TrimmedRequest(function_name, params, api) ==
    IF api.kind = "raise"
    THEN CallResult(<<Request(function_name, params)>>, <<>>, api)
    ELSE CallResult(<<Request(function_name, params)>>, <<api.val>>,
                    _trim_financial_reports(api.val))

\* get_fundamentals with the response passed through the trimmer
get_fundamentals_Trimmed(ticker, curr_date, api) ==
    LET params == [symbol |-> ticker]
    IN TrimmedRequest("OVERVIEW", params, api)

\* lines 31-46
get_fundamentals(ticker, curr_date, api) ==
    LET params == [symbol |-> ticker]
    IN CallResult(<<Request("OVERVIEW", params)>>, <<>>, api)

\* get_balance_sheet with freq sent to the provider
get_balance_sheet_SendsFreq(ticker, freq, curr_date, api) ==
    LET params == [symbol |-> ticker, freq |-> freq]
    IN TrimmedRequest("BALANCE_SHEET", params, api)

\* lines 49-65
get_balance_sheet(ticker, freq, curr_date, api) ==
    LET params == [symbol |-> ticker]
    IN TrimmedRequest("BALANCE_SHEET", params, api)

\* lines 68-84
get_cashflow(ticker, freq, curr_date, api) ==
    LET params == [symbol |-> ticker]
    IN TrimmedRequest("CASH_FLOW", params, api)

\* get_income_statement returning the response as it came
get_income_statement_Untrimmed(ticker, freq, curr_date, api) ==
    LET params == [symbol |-> ticker]
    IN CallResult(<<Request("INCOME_STATEMENT", params)>>, <<>>, api)

\* lines 87-103
get_income_statement(ticker, freq, curr_date, api) ==
    LET params == [symbol |-> ticker]
    IN TrimmedRequest("INCOME_STATEMENT", params, api)

-----------------------------------------------------------------------------
(* The inputs: response bodies and call arguments *)

\* the i-th report of a payload, {"a": i}, and an array of the first n
Report(i) == JObj(<<Pair(<<"a">>, JNum(i))>>)
Reports(n) == JArr([i \in 1..n |-> Report(i)])

Absent == [t |-> "absent"]
SomeText == <<"F","Y","2","0","2","4">>
symbol == <<"s","y","m","b","o","l">>

\* what a report field of a payload may hold: an array of 0..MaxReports
\* reports, or a value of another JSON type
FieldValues ==
    {Reports(n) : n \in 0..MaxReports}
    \cup {JNull, JNum(7), JStr(SomeText), Report(1)}

Field(key, v) == IF v = Absent THEN <<>> ELSE <<Pair(key, v)>>

\* JSON objects with or without a "symbol" field and with each report field
\* absent or holding one of FieldValues
Payloads ==
    {JObj(Field(symbol, s) \o Field(annualReports, a) \o Field(quarterlyReports, q)) :
        s \in {Absent, JStr(<<"X">>)},
        a \in {Absent} \cup FieldValues,
        q \in {Absent} \cup FieldValues}

\* JSON values that are no object
NonObjects ==
    { JNull, JBool(TRUE), JBool(FALSE), JNum(7), JStr(SomeText),
      JStr(annualReports), JStr(<<"x">> \o quarterlyReports \o <<"y">>),
      JArr(<<>>), Reports(3), JArr(<<JStr(annualReports)>>),
      JArr(<<JNum(1), JStr(quarterlyReports)>>),
      JArr(<<JArr(<<JStr(annualReports)>>)>>) }

\* a value written without white space, and as the provider writes it
Compact(v) == PyStr(Strip(DumpTokens(v, 0, 0)))
Pretty(v) == PyStr(DumpTokens(v, 4, 0) \o <<WS(1, 0)>>)

JsonTexts == {Compact(v) : v \in Payloads \cup NonObjects}
             \cup {Pretty(v) : v \in Payloads \cup NonObjects}

\* {"annualReports":[r1],"annualReports":[r1,r2,r3]}: a repeated key
RepeatedKeyText ==
    PyStr(<<LBRACE, StrTok(annualReports), COLON>>
          \o Strip(DumpTokens(Reports(1), 0, 0))
          \o <<COMMA, StrTok(annualReports), COLON>>
          \o Strip(DumpTokens(Reports(3), 0, 0))
          \o <<RBRACE>>)

\* the error string of the provider, the empty text, blank text, JSON
\* followed by more text
ErrorText ==
    PyStr(<<Word("Error:"), WS(0, 1), Word("rate"), WS(0, 1), Word("limit"),
            WS(0, 1), Word("exceeded")>>)
EmptyText == PyStr(<<>>)
PlainTexts ==
    { ErrorText, EmptyText, PyStr(<<WS(1, 0)>>),
      PyStr(Compact(Reports(1)).toks \o <<Word("trailing")>>),
      PyStr(<<LBRACE, StrTok(annualReports), RBRACE>>),
      PyStr(<<LBRACK, NumTok(1), COMMA, RBRACK>>) }

\* every proper prefix of a JSON text: the text cut short
Truncations(text) ==
    {PyStr(SubSeq(text.toks, 1, n)) : n \in 0..(Len(text.toks) - 1)}
TruncatedTexts ==
    Truncations(Compact(JObj(Field(symbol, JStr(<<"X">>))
                             \o Field(annualReports, Reports(3))
                             \o Field(quarterlyReports, Reports(1)))))
    \cup Truncations(PyStr(DumpTokens(Reports(2), 4, 0)))

\* the texts _make_api_request may return
ResponseTexts == JsonTexts \cup {RepeatedKeyText} \cup PlainTexts \cup TruncatedTexts

\* the exceptions _make_api_request may raise
ApiErrors == {"AlphaVantageRateLimitError", "ConnectionError", "TypeError",
              "JSONDecodeError"}

\* what one call of _make_api_request does
ApiOutcomes == {Return(text) : text \in ResponseTexts}
               \cup {Raise(e) : e \in ApiErrors}

Tickers == {"AAPL", ""}
Freqs == {"quarterly", "annual"}
NoDate == "None"
Dates == {NoDate, "2024-05-10"}

\* the arguments of a direct call of the trimmer
TrimInputs == ResponseTexts \cup {PyNone}

-----------------------------------------------------------------------------
(* The state: the last call made, what it did and what came back *)

VARIABLES
    pc,            \* "idle": no call made; "done": a call has finished
    fn,            \* the function called
    ticker, freq, curr_date,   \* its arguments (a retrieval function)
    response_text, \* its argument (the trimmer called directly)
    api,           \* what _make_api_request did during the call
    requests,      \* the calls of _make_api_request made
    trimmed,       \* the arguments of the trimmer's runs
    result,        \* what the caller got: Return(value) or Raise(exception)
    chained        \* the trimmer was called on the value it had just returned

vars == <<pc, fn, ticker, freq, curr_date, response_text, api, requests,
          trimmed, result, chained>>

NoValue == [kind |-> "none"]
NoArg == "n/a"

Init ==
    /\ pc = "idle"
    /\ fn = "none"
    /\ ticker = NoArg /\ freq = NoArg /\ curr_date = NoArg
    /\ response_text = NoValue
    /\ api = NoValue
    /\ requests = <<>>
    /\ trimmed = <<>>
    /\ result = NoValue
    /\ chained = FALSE

\* a retrieval function runs to its end
Finish(name, t, f, d, a, r) ==
    /\ pc' = "done"
    /\ fn' = name
    /\ ticker' = t /\ freq' = f /\ curr_date' = d
    /\ response_text' = NoValue
    /\ api' = a
    /\ requests' = r.requests
    /\ trimmed' = r.trimmed
    /\ result' = r.outcome
    /\ chained' = FALSE

Call_get_fundamentals ==
    /\ pc = "idle"
    /\ \E t \in Tickers, d \in Dates, a \in ApiOutcomes :
         Finish("get_fundamentals", t, NoArg, d, a, get_fundamentals(t, d, a))

Call_get_balance_sheet ==
    /\ pc = "idle"
    /\ \E t \in Tickers, f \in Freqs, d \in Dates, a \in ApiOutcomes :
         Finish("get_balance_sheet", t, f, d, a, get_balance_sheet(t, f, d, a))

Call_get_cashflow ==
    /\ pc = "idle"
    /\ \E t \in Tickers, f \in Freqs, d \in Dates, a \in ApiOutcomes :
         Finish("get_cashflow", t, f, d, a, get_cashflow(t, f, d, a))

Call_get_income_statement ==
    /\ pc = "idle"
    /\ \E t \in Tickers, f \in Freqs, d \in Dates, a \in ApiOutcomes :
         Finish("get_income_statement", t, f, d, a,
                get_income_statement(t, f, d, a))

\* the trimmer runs on text
RunTrimmer(text) ==
    /\ pc' = "done"
    /\ fn' = "_trim_financial_reports"
    /\ ticker' = NoArg /\ freq' = NoArg /\ curr_date' = NoArg
    /\ response_text' = text
    /\ api' = NoValue
    /\ requests' = <<>>
    /\ trimmed' = <<text>>
    /\ result' = _trim_financial_reports(text)

\* the trimmer called on a text of the caller's
Call_trim_financial_reports ==
    /\ pc = "idle"
    /\ \E text \in TrimInputs : RunTrimmer(text)
    /\ chained' = FALSE

\* the trimmer called on what the trimmer has just returned
Call_trim_again ==
    /\ pc = "done"
    /\ trimmed # <<>>
    /\ result.kind = "return"
    /\ RunTrimmer(result.val)
    /\ chained' = TRUE

\* the caller is done with the result
Caller_done ==
    /\ pc = "done"
    /\ pc' = "idle"
    /\ fn' = "none"
    /\ ticker' = NoArg /\ freq' = NoArg /\ curr_date' = NoArg
    /\ response_text' = NoValue
    /\ api' = NoValue
    /\ requests' = <<>>
    /\ trimmed' = <<>>
    /\ result' = NoValue
    /\ chained' = FALSE

Next ==
    \/ Call_get_fundamentals
    \/ Call_get_balance_sheet
    \/ Call_get_cashflow
    \/ Call_get_income_statement
    \/ Call_trim_financial_reports
    \/ Call_trim_again
    \/ Caller_done

Spec == Init /\ [][Next]_vars

-----------------------------------------------------------------------------
(* Reading a state: the trimmer's argument and the parsed texts *)

TrimmingFunctions == {"get_balance_sheet", "get_cashflow", "get_income_statement"}
RetrievalFunctions == TrimmingFunctions \cup {"get_fundamentals"}

\* the trimmer ran during the last call; TrimArg is what it was given
TrimmerRan == trimmed # <<>>
TrimArg == trimmed[1]

\* text is a str that parses to a JSON value / to a JSON object
IsJson(text) == json_loads(text).kind = "return"
ValueOf(text) == json_loads(text).val
IsJsonObject(text) == IsJson(text) /\ ValueOf(text).t = "obj"

Keys(obj) == {obj.pairs[i].key : i \in 1..Len(obj.pairs)}
Get(obj, key) ==
    LET i == CHOOSE i \in 1..Len(obj.pairs) : obj.pairs[i].key = key
    IN obj.pairs[i].val
HasArray(obj, key) == key \in Keys(obj) /\ Get(obj, key).t = "arr"
Prefix(seq, n) == [i \in 1..Min(n, Len(seq)) |-> seq[i]]

\* the last call returned a text that parses to a JSON object
ReturnedObject ==
    /\ result.kind = "return"
    /\ IsJsonObject(result.val)

-----------------------------------------------------------------------------
(* Claims *)

\* C1: get_balance_sheet, get_cashflow and get_income_statement give the
\* caller the trimmer applied to the text r the request helper returned; the
\* error string "Error: rate limit exceeded" comes back unchanged.
C1_TrimmedVariantsReturnTrimmerOfResponse ==
    (fn \in TrimmingFunctions /\ api.kind = "return") =>
        /\ result = _trim_financial_reports(api.val)
        /\ trimmed = <<api.val>>
        /\ (api.val = ErrorText => result = Return(ErrorText))

C1_Witness ==
    /\ fn = "get_income_statement"
    /\ api = Return(ErrorText)
    /\ result = Return(ErrorText)

\* C2: an input that parses to a JSON object with an annualReports array of
\* length L gives an output whose annualReports is the array of the first
\* min(L, 2) elements of the input's, in order.
C2_AnnualReportsPrefix ==
    (TrimmerRan /\ IsJsonObject(TrimArg)
        /\ HasArray(ValueOf(TrimArg), annualReports)) =>
        /\ ReturnedObject
        /\ annualReports \in Keys(ValueOf(result.val))
        /\ Get(ValueOf(result.val), annualReports)
             = JArr(Prefix(Get(ValueOf(TrimArg), annualReports).items, 2))

\* C3: an input that parses to a JSON object with a quarterlyReports array of
\* length L gives an output whose quarterlyReports is the array of the first
\* min(L, 4) elements of the input's, in order, whatever annualReports holds
\* and whether or not it is present.
C3_QuarterlyReportsPrefix ==
    (TrimmerRan /\ IsJsonObject(TrimArg)
        /\ HasArray(ValueOf(TrimArg), quarterlyReports)) =>
        /\ ReturnedObject
        /\ quarterlyReports \in Keys(ValueOf(result.val))
        /\ Get(ValueOf(result.val), quarterlyReports)
             = JArr(Prefix(Get(ValueOf(TrimArg), quarterlyReports).items, 4))

C5_OverviewNeverTrimmed ==
    (fn = "get_fundamentals" /\ api.kind = "return") =>
        /\ result = Return(api.val)
        /\ trimmed = <<>>

C5_Witness ==
    /\ fn = "get_fundamentals"
    /\ api.kind = "return"
    /\ IsJsonObject(api.val)
    /\ HasArray(ValueOf(api.val), annualReports)
    /\ Len(Get(ValueOf(api.val), annualReports).items) > MAX_ANNUAL_REPORTS
    /\ HasArray(ValueOf(api.val), quarterlyReports)
    /\ Len(Get(ValueOf(api.val), quarterlyReports).items) > MAX_QUARTERLY_REPORTS
    /\ result = api

\* C6: when the request helper raises, each of the four retrieval functions
\* lets that same exception reach the caller: it returns nothing in its
\* place and does not run the trimmer.
C6_HelperFailurePropagates ==
    (fn \in RetrievalFunctions /\ api.kind = "raise") =>
        /\ result = Raise(api.exc)
        /\ trimmed = <<>>

C6_Witness ==
    /\ fn = "get_cashflow"
    /\ api = Raise("TypeError")
    /\ result = Raise("TypeError")
    /\ trimmed = <<>>

\* C7: a retrieval function calls the request helper exactly once, with its
\* own report type and a parameter mapping whose only key is symbol, mapped
\* to the ticker as passed; freq and curr_date change neither the request
\* nor the value returned.
ReportType(name) ==
    CASE name = "get_fundamentals" -> "OVERVIEW"
      [] name = "get_balance_sheet" -> "BALANCE_SHEET"
      [] name = "get_cashflow" -> "CASH_FLOW"
      [] name = "get_income_statement" -> "INCOME_STATEMENT"

CallOf(name, t, f, d, a) ==
    CASE name = "get_fundamentals" -> get_fundamentals(t, d, a)
      [] name = "get_balance_sheet" -> get_balance_sheet(t, f, d, a)
      [] name = "get_cashflow" -> get_cashflow(t, f, d, a)
      [] name = "get_income_statement" -> get_income_statement(t, f, d, a)

C7_OneRequestSymbolOnly ==
    fn \in RetrievalFunctions =>
        /\ Len(requests) = 1
        /\ requests[1].function_name = ReportType(fn)
        /\ DOMAIN requests[1].params = {"symbol"}
        /\ requests[1].params.symbol = ticker
        /\ \A f \in Freqs, d \in Dates :
             /\ CallOf(fn, ticker, f, d, api).requests = requests
             /\ CallOf(fn, ticker, f, d, api).outcome = result

C7_Witness ==
    /\ fn = "get_balance_sheet"
    /\ ticker = ""
    /\ freq = "annual"
    /\ curr_date # NoDate
    /\ requests = <<Request("BALANCE_SHEET", [symbol |-> ""])>>
    /\ result.kind = "return"
    /\ result.val # api.val

\* C8: on an input that parses to a JSON value that is no object (an array,
\* a string, a number, a boolean, null) the trimmer does not raise and
\* returns that same value serialized again.
C8_NonObjectReserialized ==
    (TrimmerRan /\ IsJson(TrimArg) /\ ValueOf(TrimArg).t # "obj") =>
        /\ result.kind = "return"
        /\ IsJson(result.val)
        /\ ValueOf(result.val) = ValueOf(TrimArg)

\* C9: on an input that parses to a JSON object, the output has the keys of
\* the input, no more and no fewer, every key other than annualReports and
\* quarterlyReports with the value it had; with both report fields absent
\* the output is the input object serialized again.
C9_OtherFieldsPassThrough ==
    (TrimmerRan /\ IsJsonObject(TrimArg)) =>
        /\ ReturnedObject
        /\ Keys(ValueOf(result.val)) = Keys(ValueOf(TrimArg))
        /\ \A key \in Keys(ValueOf(TrimArg)) \ {annualReports, quarterlyReports} :
             Get(ValueOf(result.val), key) = Get(ValueOf(TrimArg), key)
        /\ (Keys(ValueOf(TrimArg)) \cap {annualReports, quarterlyReports} = {}
              => /\ ValueOf(result.val) = ValueOf(TrimArg)
                 /\ result.val = json_dumps(ValueOf(TrimArg), INDENT))

\* C10: trimming is idempotent: the trimmer applied to a text it has just
\* returned returns that text unchanged; and a JSON object whose report
\* arrays are within the limits (at most 2 annual, at most 4 quarterly)
\* comes out with the same contents.
WithinLimit(obj, key, limit) ==
    key \in Keys(obj) =>
        Get(obj, key).t = "arr" /\ Len(Get(obj, key).items) <= limit

C10_Idempotent ==
    /\ chained => result = Return(response_text)
    /\ (TrimmerRan /\ result.kind = "return") =>
          _trim_financial_reports(result.val) = Return(result.val)
    /\ (TrimmerRan /\ IsJsonObject(TrimArg)
          /\ WithinLimit(ValueOf(TrimArg), annualReports, 2)
          /\ WithinLimit(ValueOf(TrimArg), quarterlyReports, 4)) =>
          /\ ReturnedObject
          /\ ValueOf(result.val) = ValueOf(TrimArg)

C10_Witness ==
    /\ chained
    /\ result = Return(response_text)
    /\ IsJsonObject(response_text)
    /\ HasArray(ValueOf(response_text), annualReports)
    /\ Len(Get(ValueOf(response_text), annualReports).items) = 2
    /\ HasArray(ValueOf(response_text), quarterlyReports)
    /\ Len(Get(ValueOf(response_text), quarterlyReports).items) = 4

=============================================================================
